---------------------------- MODULE Spec2Model ----------------------------
(***************************************************************************)
(* TapEventPlugin (src/browser/eventPlugins/TapEventPlugin.js): the tap    *)
(* gesture recognizer.  The module-level variables of the plugin are the   *)
(* state; extractEvents is the only operation and is modelled as one       *)
(* action whose disjuncts are the return paths of the function.            *)
(*                                                                         *)
(* JavaScript values that may be null are modelled as sequences: Null is   *)
(* <<>> and the value v is <<v>>, so  that the truthiness tests and the    *)
(* null -> 0 coercion of the source are computed, not assumed.             *)
(***************************************************************************)
EXTENDS Integers, Sequences, FiniteSets

VARIABLES
    startCoords,          \* {x, y}: origin of the gesture (line 49)
    lastStartTouchEvent,  \* timestamp of the last accepted start-class event (line 50)
    lastEndTouchEvent,    \* timestamp of the last accepted end-class event (line 51)
    Time,                 \* {start, end} (lines 57-60)
    ViewportMetrics,      \* scroll offsets of the host viewport (line 28)
    result,               \* what the last call of extractEvents returned
    call,                 \* history: the last call (class, return path, position, time)
    gesture,              \* history: the last accepted start-class event and what followed
    accepted,             \* history: times of the last accepted start- and end-class events
    clock,                \* host clock: timestamp of the last raw event
    nEvents,              \* number of raw events delivered so far
    expect,               \* history: the class a well-formed stream delivers next
    probe,                \* inputs of the load-time and extraction functions
    measured              \* their outputs

state == <<startCoords, lastStartTouchEvent, lastEndTouchEvent, Time>>
vars == <<startCoords, lastStartTouchEvent, lastEndTouchEvent, Time,
          ViewportMetrics, result, call, gesture, accepted, clock, nEvents,
          expect, probe, measured>>

---------------------------------------------------------------------------
(* Bounds of the model. *)

\* number of raw events the host delivers
MaxEvents == 3

\* number of raw events of a well-formed stream
MaxStreamEvents == 4

\* page positions of the raw events
Positions == { <<0, 0>>, <<3, 4>>, <<13, 4>>, <<10, 0>> }

\* time elapsed between two consecutive raw events (ms)
Deltas == { 0, 100, 250, 2000, 2001 }

\* scroll offsets (left, top) the viewport may have
Scrolls == { <<2, 5>> }

---------------------------------------------------------------------------
(* JavaScript values. *)

Null == <<>>
Num(n) == <<n>>
Val(v) == v[1]

\* ToBoolean of a value that is null or a number
Truthy(v) == v # Null /\ Val(v) # 0

\* ToNumber of a value that is null or a number (null - 3 is -3)
ToNumber(v) == IF v = Null THEN 0 ELSE Val(v)

Abs(n) == IF n < 0 THEN -n ELSE n

\* floor of the square root of n, n = a*a + b*b
FloorSqrt(n, a, b) ==
    LET lo == IF Abs(a) > Abs(b) THEN Abs(a) ELSE Abs(b)
    IN  CHOOSE r \in lo..(Abs(a) + Abs(b)) : r * r <= n /\ (r + 1) * (r + 1) > n

---------------------------------------------------------------------------
(* Constants of the plugin. *)

tapMoveThreshold == 10
ignoreMouseThreshold == 350
tapTimeThreshold == 2000

Axis == [ x |-> [page |-> "pageX", client |-> "clientX", envScroll |-> "currentPageScrollLeft"],
          y |-> [page |-> "pageY", client |-> "clientY", envScroll |-> "currentPageScrollTop"] ]

---------------------------------------------------------------------------
(* The host: raw event kinds and raw events. *)

StartTypes == { "topMouseDown", "topTouchStart" }
EndTypes == { "topMouseUp", "topTouchEnd", "topTouchCancel" }
MoveTypes == { "topMouseMove", "topTouchMove" }
TopLevelTypes == StartTypes \cup EndTypes \cup MoveTypes
TouchTypes == { "topTouchStart", "topTouchEnd", "topTouchCancel", "topTouchMove" }

isStartish(topLevelType) == topLevelType \in StartTypes
isEndish(topLevelType) == topLevelType \in EndTypes

ClassOf(topLevelType) ==
    IF isStartish(topLevelType) THEN "start"
    ELSE IF isEndish(topLevelType) THEN "end" ELSE "move"

\* the shapes a raw event of a kind comes in: a touch event carries its one
\* touch point, a mouse event its page coordinates or only client coordinates
Shapes(topLevelType) ==
    IF topLevelType \in TouchTypes THEN { "touch" } ELSE { "page", "client" }

\* the raw event of the given shape at page position pos, at time t
NativeEvent(shape, pos, t, scroll) ==
    [ timeStamp |-> t,
      touches |-> IF shape = "touch" THEN <<[pageX |-> pos[1], pageY |-> pos[2]]>> ELSE <<>>,
      hasPage |-> shape = "page",
      pageX  |-> IF shape = "page" THEN pos[1] ELSE 0,
      pageY  |-> IF shape = "page" THEN pos[2] ELSE 0,
      clientX |-> pos[1] - scroll[1],
      clientY |-> pos[2] - scroll[2] ]

\* TouchEventUtils.extractSingleTouch: the single active touch point, if the
\* event carries exactly one
extractSingleTouch(nativeEvent) ==
    IF Len(nativeEvent.touches) = 1 THEN <<nativeEvent.touches[1]>> ELSE Null

---------------------------------------------------------------------------
(* Module load: the dependencies of the three event types (lines 93-141).  *)
(* A variable that was never assigned is Null; a list l is <<l>>.          *)

\* the host at load time: EventPluginUtils.useTouchEvents and
\* 'ontouchstart' in window
Hosts == [useTouchEvents : BOOLEAN, ontouchstart : BOOLEAN]

isTouchDevice(host) == host.ontouchstart

mouseDependencies == << "topMouseDown", "topMouseMove", "topMouseUp" >>
touchDependencies == << "topTouchCancel", "topTouchEnd", "topTouchStart", "topTouchMove" >>

dependencies(host) ==
    IF host.useTouchEvents
    THEN IF isTouchDevice(host) THEN <<touchDependencies>> ELSE <<mouseDependencies>>
    ELSE Null

eventTypes(host) ==
    [ touchTap |->
        [ phasedRegistrationNames |-> [bubbled |-> "onTap", captured |-> "onTapCapture"],
          dependencies |-> dependencies(host) ],
      touchTapStart |->
        [ phasedRegistrationNames |-> [bubbled |-> "onTapStart", captured |-> "onTapStartCapture"],
          dependencies |-> dependencies(host) ],
      touchTapEnd |->
        [ phasedRegistrationNames |-> [bubbled |-> "onTapEnd", captured |-> "onTapEndCapture"],
          dependencies |-> dependencies(host) ] ]

---------------------------------------------------------------------------
(* Coordinate and timing extraction. *)

\* variant: the client coordinate taken as the page coordinate
getAxisCoordOfEvent_noScroll(axis, nativeEvent, metrics) ==
    LET singleTouch == extractSingleTouch(nativeEvent)
    IN  IF singleTouch # Null
        THEN Val(singleTouch)[axis.page]
        ELSE IF nativeEvent.hasPage
             THEN nativeEvent[axis.page]
             ELSE nativeEvent[axis.client]

getAxisCoordOfEvent(axis, nativeEvent, metrics) ==
    LET singleTouch == extractSingleTouch(nativeEvent)
    IN  IF singleTouch # Null
        THEN Val(singleTouch)[axis.page]
        ELSE IF nativeEvent.hasPage
             THEN nativeEvent[axis.page]
             ELSE nativeEvent[axis.client] + metrics[axis.envScroll]

\* Math.pow(dx^2 + dy^2, 0.5), rounded down: the value is only ever compared
\* with the integer tapMoveThreshold, which rounding down does not change
getDistance(coords, nativeEvent, metrics) ==
    LET pageX == getAxisCoordOfEvent(Axis.x, nativeEvent, metrics)
        pageY == getAxisCoordOfEvent(Axis.y, nativeEvent, metrics)
        dx == pageX - ToNumber(coords.x)
        dy == pageY - ToNumber(coords.y)
    IN  FloorSqrt(dx * dx + dy * dy, dx, dy)

getTime(nativeEvent) == nativeEvent.timeStamp

\* variant: the operands of the subtraction exchanged
getDuration_reversed(T) == T.start - T.end

getDuration(T) == T.end - T.start

---------------------------------------------------------------------------
(* Return values of extractEvents. *)

ReturnNull == [shape |-> "null", events |-> <<>>]
ReturnEvent(e) == [shape |-> "event", events |-> <<e>>]
ReturnArray(es) == [shape |-> "array", events |-> es]

---------------------------------------------------------------------------
(* Tests of extractEvents. *)

\* line 170 / 175: a same-class event was accepted less than 350 ms before
WithinIgnoreWindow(last, nativeEvent) ==
    Truthy(last) /\ (nativeEvent.timeStamp - Val(last)) < ignoreMouseThreshold

\* variant: a test against null instead of a truthiness test
HasStartCoords_notNull(coords) == coords.x # Null /\ coords.y # Null

\* line 183
HasStartCoords(coords) == Truthy(coords.x) /\ Truthy(coords.y)

\* line 185
BeyondMoveThreshold(distance) == distance >= tapMoveThreshold

\* variant: the time threshold itself already counts as exceeded
BeyondTimeThreshold_inclusive(duration) == duration >= tapTimeThreshold

\* line 220
BeyondTimeThreshold(duration) == duration > tapTimeThreshold

\* line 237
WithinMoveThreshold(distance) == distance < tapMoveThreshold

\* lines 186-187 and 251-252
ClearedCoords == [x |-> Num(0), y |-> Num(0)]

\* variant: line 253 left out
ClearedTime_keepsStart == [start |-> Time.start, end |-> 0]

\* lines 253-254
ClearedTime == [start |-> 0, end |-> 0]

---------------------------------------------------------------------------
(* History variables. *)

NoCall == [cls |-> "none", path |-> "none", pos |-> <<0, 0>>, t |-> 0, was |-> "idle"]

NoGesture == [started |-> FALSE, pos |-> <<0, 0>>, time |-> 0, armed |-> FALSE,
              aborted |-> FALSE, moves |-> 0, ends |-> 0]

\* exact comparison of the distance between two positions with a threshold
SqDist(p, q) == (p[1] - q[1]) * (p[1] - q[1]) + (p[2] - q[2]) * (p[2] - q[2])
Closer(p, q, d) == SqDist(p, q) < d * d

\* what the gesture was when the call began: armed, cancelled by a move that
\* returned touchTapEnd, or idle
Was ==
    IF gesture.armed THEN "armed"
    ELSE IF gesture.aborted /\ gesture.ends = 0 THEN "cancelled" ELSE "idle"

Called(topLevelType, path, pos, nativeEvent) ==
    call' = [cls |-> ClassOf(topLevelType), path |-> path, pos |-> pos,
             t |-> nativeEvent.timeStamp, was |-> Was]

\* nothing probed, nothing measured
NoProbe == <<>>
NotMeasured == [loaded |-> FALSE, eventTypes |-> Null,
                extracted |-> FALSE, pageX |-> 0, pageY |-> 0, distance |-> 0]

---------------------------------------------------------------------------
Init ==
    /\ expect = "any"
    /\ probe = NoProbe
    /\ measured = NotMeasured
    /\ startCoords = [x |-> Null, y |-> Null]
    /\ lastStartTouchEvent = Null
    /\ lastEndTouchEvent = Null
    /\ Time = [start |-> 0, end |-> 0]
    /\ ViewportMetrics \in { [currentPageScrollLeft |-> s[1], currentPageScrollTop |-> s[2]] :
                               s \in Scrolls }
    /\ result = ReturnNull
    /\ call = NoCall
    /\ gesture = NoGesture
    /\ accepted = [start |-> Null, end |-> Null]
    /\ clock = 0
    /\ nEvents = 0

---------------------------------------------------------------------------
(* extractEvents, one operator per return path.  Each gives the new values *)
(* of the plugin's variables and the value returned.                       *)

\* variant: the duplicate falls through to the reset of lines 251-254
IgnoreDuplicate_resets(nativeEvent) ==
    /\ result' = ReturnNull
    /\ startCoords' = ClearedCoords
    /\ Time' = ClearedTime
    /\ UNCHANGED <<lastStartTouchEvent, lastEndTouchEvent>>

\* lines 170-172 and 175-177: a duplicate start-class or end-class event
IgnoreDuplicate(nativeEvent) ==
    /\ result' = ReturnNull
    /\ UNCHANGED state

\* lines 185-195: a move beyond the threshold cancels the gesture
CancelByMove(nativeEvent) ==
    /\ startCoords' = ClearedCoords
    /\ result' = ReturnEvent("touchTapEnd")
    /\ UNCHANGED <<lastStartTouchEvent, lastEndTouchEvent, Time>>

\* variant: a move within the threshold becomes the new origin
IgnoreMove_rebases(nativeEvent) ==
    /\ result' = ReturnNull
    /\ startCoords' =
         IF HasStartCoords(startCoords)
         THEN [x |-> Num(getAxisCoordOfEvent(Axis.x, nativeEvent, ViewportMetrics)),
               y |-> Num(getAxisCoordOfEvent(Axis.y, nativeEvent, ViewportMetrics))]
         ELSE startCoords
    /\ UNCHANGED <<lastStartTouchEvent, lastEndTouchEvent, Time>>

\* line 197: any other move
IgnoreMove(nativeEvent) ==
    /\ result' = ReturnNull
    /\ UNCHANGED state

\* variant: a start-class event does not overwrite an origin already recorded
TapStart_keepsOrigin(nativeEvent) ==
    /\ lastStartTouchEvent' = Num(nativeEvent.timeStamp)
    /\ Time' = [Time EXCEPT !.start = getTime(nativeEvent)]
    /\ startCoords' =
         IF HasStartCoords(startCoords)
         THEN startCoords
         ELSE [x |-> Num(getAxisCoordOfEvent(Axis.x, nativeEvent, ViewportMetrics)),
               y |-> Num(getAxisCoordOfEvent(Axis.y, nativeEvent, ViewportMetrics))]
    /\ result' = ReturnEvent("touchTapStart")
    /\ UNCHANGED lastEndTouchEvent

\* lines 173 and 200-213: an accepted start-class event
TapStart(nativeEvent) ==
    /\ lastStartTouchEvent' = Num(nativeEvent.timeStamp)
    /\ Time' = [Time EXCEPT !.start = getTime(nativeEvent)]
    /\ startCoords' = [x |-> Num(getAxisCoordOfEvent(Axis.x, nativeEvent, ViewportMetrics)),
                       y |-> Num(getAxisCoordOfEvent(Axis.y, nativeEvent, ViewportMetrics))]
    /\ result' = ReturnEvent("touchTapStart")
    /\ UNCHANGED lastEndTouchEvent

\* lines 217-249: the events of an accepted end-class event, T the clock
\* after line 217
TapEndEvents(T, nativeEvent) ==
    IF BeyondTimeThreshold(getDuration(T))
    THEN <<"touchTapEnd">>
    ELSE IF WithinMoveThreshold(getDistance(startCoords, nativeEvent, ViewportMetrics))
         THEN <<"touchTapEnd", "touchTap">>
         ELSE <<"touchTapEnd">>

\* lines 178 and 216-256: an accepted end-class event
TapEnd(nativeEvent) ==
    /\ lastEndTouchEvent' = Num(nativeEvent.timeStamp)
    /\ result' = ReturnArray(TapEndEvents([Time EXCEPT !.end = getTime(nativeEvent)],
                                          nativeEvent))
    /\ startCoords' = ClearedCoords
    /\ Time' = ClearedTime
    /\ UNCHANGED lastStartTouchEvent

\* the outcome of an accepted end-class event, for the history
EndPath(T, nativeEvent) ==
    IF BeyondTimeThreshold(getDuration(T)) THEN "endTimeout"
    ELSE IF WithinMoveThreshold(getDistance(startCoords, nativeEvent, ViewportMetrics))
         THEN "endTap" ELSE "endNoTap"

extractEvents(topLevelType, nativeEvent, pos) ==
    \/ /\ isStartish(topLevelType)
       /\ WithinIgnoreWindow(lastStartTouchEvent, nativeEvent)
       /\ IgnoreDuplicate(nativeEvent)
       /\ Called(topLevelType, "ignored", pos, nativeEvent)
       /\ UNCHANGED <<gesture, accepted>>
    \/ /\ ~isStartish(topLevelType) /\ isEndish(topLevelType)
       /\ WithinIgnoreWindow(lastEndTouchEvent, nativeEvent)
       /\ IgnoreDuplicate(nativeEvent)
       /\ Called(topLevelType, "ignored", pos, nativeEvent)
       /\ UNCHANGED <<gesture, accepted>>
    \/ /\ ~isStartish(topLevelType) /\ ~isEndish(topLevelType)
       /\ HasStartCoords(startCoords)
       /\ BeyondMoveThreshold(getDistance(startCoords, nativeEvent, ViewportMetrics))
       /\ CancelByMove(nativeEvent)
       /\ Called(topLevelType, "moveCancel", pos, nativeEvent)
       /\ gesture' = [gesture EXCEPT !.armed = FALSE, !.aborted = TRUE]
       /\ UNCHANGED accepted
    \/ /\ ~isStartish(topLevelType) /\ ~isEndish(topLevelType)
       /\ ~(/\ HasStartCoords(startCoords)
            /\ BeyondMoveThreshold(getDistance(startCoords, nativeEvent, ViewportMetrics)))
       /\ IgnoreMove(nativeEvent)
       /\ Called(topLevelType, "moveIgnored", pos, nativeEvent)
       /\ gesture' = IF gesture.armed /\ Closer(gesture.pos, pos, tapMoveThreshold)
                     THEN [gesture EXCEPT !.moves = @ + 1]
                     ELSE [gesture EXCEPT !.armed = FALSE]
       /\ UNCHANGED accepted
    \/ /\ isStartish(topLevelType)
       /\ ~WithinIgnoreWindow(lastStartTouchEvent, nativeEvent)
       /\ TapStart(nativeEvent)
       /\ Called(topLevelType, "start", pos, nativeEvent)
       /\ gesture' = [started |-> TRUE, pos |-> pos, time |-> nativeEvent.timeStamp,
                      armed |-> TRUE, aborted |-> FALSE, moves |-> 0, ends |-> 0]
       /\ accepted' = [accepted EXCEPT !.start = Num(nativeEvent.timeStamp)]
    \/ /\ ~isStartish(topLevelType) /\ isEndish(topLevelType)
       /\ ~WithinIgnoreWindow(lastEndTouchEvent, nativeEvent)
       /\ TapEnd(nativeEvent)
       /\ Called(topLevelType,
                 EndPath([Time EXCEPT !.end = getTime(nativeEvent)], nativeEvent),
                 pos, nativeEvent)
       /\ gesture' = [gesture EXCEPT !.armed = FALSE, !.ends = @ + 1]
       /\ accepted' = [accepted EXCEPT !.end = Num(nativeEvent.timeStamp)]

\* the host delivers the next raw event, in chronological order
Dispatch ==
    \E topLevelType \in TopLevelTypes, pos \in Positions, d \in Deltas :
      \E shape \in Shapes(topLevelType) :
        /\ nEvents < MaxEvents
        /\ extractEvents(topLevelType,
                         NativeEvent(shape, pos, clock + d,
                                     <<ViewportMetrics.currentPageScrollLeft,
                                       ViewportMetrics.currentPageScrollTop>>),
                         pos)
        /\ clock' = clock + d
        /\ nEvents' = nEvents + 1
        /\ UNCHANGED <<ViewportMetrics, expect, probe, measured>>

Next == Dispatch

Spec == Init /\ [][Next]_vars

---------------------------------------------------------------------------
(* Well-formed host streams: start-class and end-class events alternate,   *)
(* beginning with a start, with any moves in between.                      *)

InitStream ==
    /\ expect = "start"
    /\ probe = NoProbe
    /\ measured = NotMeasured
    /\ startCoords = [x |-> Null, y |-> Null]
    /\ lastStartTouchEvent = Null
    /\ lastEndTouchEvent = Null
    /\ Time = [start |-> 0, end |-> 0]
    /\ ViewportMetrics \in { [currentPageScrollLeft |-> s[1], currentPageScrollTop |-> s[2]] :
                               s \in Scrolls }
    /\ result = ReturnNull
    /\ call = NoCall
    /\ gesture = NoGesture
    /\ accepted = [start |-> Null, end |-> Null]
    /\ clock = 0
    /\ nEvents = 0

DispatchStream ==
    \E topLevelType \in TopLevelTypes, pos \in Positions, d \in Deltas :
      \E shape \in Shapes(topLevelType) :
        /\ nEvents < MaxStreamEvents
        /\ ClassOf(topLevelType) \in {"move", expect}
        /\ extractEvents(topLevelType,
                         NativeEvent(shape, pos, clock + d,
                                     <<ViewportMetrics.currentPageScrollLeft,
                                       ViewportMetrics.currentPageScrollTop>>),
                         pos)
        /\ clock' = clock + d
        /\ nEvents' = nEvents + 1
        /\ expect' = CASE ClassOf(topLevelType) = "start" -> "end"
                        [] ClassOf(topLevelType) = "end" -> "start"
                        [] OTHER -> expect
        /\ UNCHANGED <<ViewportMetrics, probe, measured>>

NextStream == DispatchStream

SpecStream == InitStream /\ [][NextStream]_vars

---------------------------------------------------------------------------
(* The functions of the module that keep no state, applied to inputs drawn *)
(* from bounded sets: the module load and the coordinate extraction.       *)

ProbeTouches ==
    { <<>>,
      << [pageX |-> 1, pageY |-> 4] >>,
      << [pageX |-> 1, pageY |-> 4], [pageX |-> 6, pageY |-> 2] >> }

\* mouse fields of a raw event: pageX/pageY present or not, clientX/clientY
ProbeMouse ==
    { [hasPage |-> TRUE, pageX |-> 10, pageY |-> 12],
      [hasPage |-> TRUE, pageX |-> 0, pageY |-> 9],
      [hasPage |-> FALSE, pageX |-> 0, pageY |-> 0] }

ProbeClients == { <<20, 23>>, <<3, 0>> }

ProbeScrolls == { <<0, 0>>, <<2, 5>> }

ProbeOrigins == { <<0, 0>>, <<3, 4>>, <<13, 4>> }

Probes ==
    { [ host |-> h,
        event |-> [timeStamp |-> 0, touches |-> ts, hasPage |-> m.hasPage,
                   pageX |-> m.pageX, pageY |-> m.pageY,
                   clientX |-> c[1], clientY |-> c[2]],
        metrics |-> [currentPageScrollLeft |-> sc[1], currentPageScrollTop |-> sc[2]],
        coords |-> [x |-> Num(o[1]), y |-> Num(o[2])] ] :
      h \in Hosts, ts \in ProbeTouches, m \in ProbeMouse, c \in ProbeClients,
      sc \in ProbeScrolls, o \in ProbeOrigins }

InitProbe ==
    /\ expect = "any"
    /\ probe \in Probes
    /\ measured = NotMeasured
    /\ startCoords = [x |-> Null, y |-> Null]
    /\ lastStartTouchEvent = Null
    /\ lastEndTouchEvent = Null
    /\ Time = [start |-> 0, end |-> 0]
    /\ ViewportMetrics = probe.metrics
    /\ result = ReturnNull
    /\ call = NoCall
    /\ gesture = NoGesture
    /\ accepted = [start |-> Null, end |-> Null]
    /\ clock = 0
    /\ nEvents = 0

\* lines 93-141: the module is loaded on the probed host
LoadModule ==
    /\ ~measured.loaded
    /\ measured' = [measured EXCEPT !.loaded = TRUE,
                                     !.eventTypes = <<eventTypes(probe.host)>>]
    /\ UNCHANGED <<state, ViewportMetrics, result, call, gesture, accepted, clock,
                   nEvents, expect, probe>>

\* lines 62-81: the coordinates of the probed event and its distance from
\* the probed origin
Measure ==
    /\ ~measured.extracted
    /\ measured' = [measured EXCEPT
          !.extracted = TRUE,
          !.pageX = getAxisCoordOfEvent(Axis.x, probe.event, ViewportMetrics),
          !.pageY = getAxisCoordOfEvent(Axis.y, probe.event, ViewportMetrics),
          !.distance = getDistance(probe.coords, probe.event, ViewportMetrics)]
    /\ UNCHANGED <<state, ViewportMetrics, result, call, gesture, accepted, clock,
                   nEvents, expect, probe>>

NextProbe == LoadModule \/ Measure

SpecProbe == InitProbe /\ [][NextProbe]_vars

---------------------------------------------------------------------------
(* Properties.                                                             *)
(*                                                                         *)
(* An accepted event is a start-class or end-class event that the          *)
(* duplicate filter let through.  gesture describes the last accepted      *)
(* start-class event: its position and time, whether a move returned       *)
(* touchTapEnd since (aborted), the moves within the threshold since       *)
(* (moves), the accepted end-class events since (ends), and the armed flag *)
(* of the two-state machine (set by an accepted start, cleared by an       *)
(* accepted end and by a move at or beyond the threshold).                 *)

TapEndOnly == ReturnArray(<<"touchTapEnd">>)
TapEndThenTap == ReturnArray(<<"touchTapEnd", "touchTap">>)

AcceptedStart == call.cls = "start" /\ call.path # "ignored"
AcceptedEnd == call.cls = "end" /\ call.path # "ignored"

\* C1: an accepted end-class event that follows an accepted start-class event
\* with no other accepted start or end and no move-abort in between, at most
\* 2000 ms later and less than 10 px away, returns [tap-end, tap].
C1_TapWithinThresholds ==
    ( /\ AcceptedEnd
      /\ gesture.started /\ gesture.ends = 1 /\ ~gesture.aborted
      /\ call.t - gesture.time <= 2000
      /\ Closer(gesture.pos, call.pos, 10) )
    => result = TapEndThenTap

\* start (0,0) t=0, end (3,4) t=100 returns [tap-end, tap]
C1_Witness ==
    /\ AcceptedEnd /\ gesture.ends = 1 /\ ~gesture.aborted
    /\ gesture.pos = <<0, 0>> /\ gesture.time = 0
    /\ call.pos = <<3, 4>> /\ call.t = 100
    /\ result = TapEndThenTap

\* C2: the first accepted end-class event after an accepted start-class event,
\* at a distance of 10 px or more from the position of that start, returns
\* [tap-end] only, whatever moves occurred in between.
C2_NoTapBeyondMoveThreshold ==
    ( /\ AcceptedEnd
      /\ gesture.started /\ gesture.ends = 1
      /\ ~Closer(gesture.pos, call.pos, 10) )
    => result = TapEndOnly

\* C3: an accepted end-class event more than 2000 ms after the recorded
\* Time.start returns [tap-end] only, whatever its distance from the origin.
C3_NoTapAfterTimeWindow ==
    [][ ( /\ call'.cls = "end" /\ call'.path # "ignored"
          /\ call'.t - Time.start > 2000 )
        => result' = TapEndOnly ]_vars

\* start and end at the same position, the end more than 2000 ms later
C3_Witness ==
    /\ AcceptedEnd /\ gesture.started /\ gesture.ends = 1 /\ ~gesture.aborted
    /\ gesture.moves = 0
    /\ call.pos = gesture.pos
    /\ call.t - gesture.time > 2000
    /\ result = TapEndOnly

\* C4: a start-class event less than 350 ms after the last accepted
\* start-class event (at any timestamp t >= 0) returns nothing; one that is
\* 350 ms or more after it is processed and returns tap-start.
C4_StartDedup ==
    [][ /\ ( /\ call'.cls = "start" /\ gesture.started
             /\ call'.t - gesture.time < 350 )
           => result' = ReturnNull
        /\ ( /\ call'.cls = "start" /\ gesture.started
             /\ call'.t - gesture.time >= 350 )
           => result' = ReturnEvent("touchTapStart") ]_vars

\* C5: a move at 10 px or more from the position of the accepted start-class
\* event, while the gesture is armed, returns a single tap-end and clears the
\* origin, for every start position.
C5_MoveAbort ==
    [][ ( /\ call'.cls = "move" /\ gesture.armed
          /\ ~Closer(gesture.pos, call'.pos, 10) )
        => ( /\ result' = ReturnEvent("touchTapEnd")
             /\ ~HasStartCoords(startCoords') ) ]_vars

\* C6: a start-class or end-class event that the duplicate filter discards
\* (it returns nothing) leaves startCoords, Time, lastStartTouchEvent and
\* lastEndTouchEvent unchanged, and it came less than 350 ms after an
\* accepted event of its class.
C6_DuplicateChangesNothing ==
    [][ ( /\ call'.cls \in {"start", "end"}
          /\ result' = ReturnNull )
        => ( /\ UNCHANGED <<startCoords, Time, lastStartTouchEvent, lastEndTouchEvent>>
             /\ call'.cls = "start" =>
                   (accepted.start # Null /\ call'.t - Val(accepted.start) < 350)
             /\ call'.cls = "end" =>
                   (accepted.end # Null /\ call'.t - Val(accepted.end) < 350) ) ]_vars

\* a discarded end-class event while a gesture is armed: it stays armed
C6_Witness ==
    /\ call.cls = "end" /\ call.path = "ignored" /\ result = ReturnNull
    /\ call.was = "armed" /\ gesture.armed
    /\ HasStartCoords(startCoords)

\* C7: an accepted start-class event returns exactly tap-start and records
\* its own timestamp in Time.start and its page position in startCoords.
C7_StartArms ==
    AcceptedStart =>
      /\ result = ReturnEvent("touchTapStart")
      /\ Time.start = call.t
      /\ startCoords = [x |-> Num(call.pos[1]), y |-> Num(call.pos[2])]

\* a start-class event accepted while an earlier gesture was still armed
C7_Witness ==
    /\ AcceptedStart /\ call.was = "armed"
    /\ result = ReturnEvent("touchTapStart")
    /\ call.pos = <<13, 4>> /\ call.t > 0
    /\ startCoords = [x |-> Num(13), y |-> Num(4)]

\* C8: after an accepted end-class event startCoords is (0,0) and Time.start
\* and Time.end are 0, whatever the outcome.
C8_EndResets ==
    AcceptedEnd =>
      /\ startCoords = [x |-> Num(0), y |-> Num(0)]
      /\ Time = [start |-> 0, end |-> 0]

\* an end-class event that timed out, after a start at t > 0
C8_Witness ==
    /\ AcceptedEnd /\ call.path = "endTimeout" /\ call.was = "armed"
    /\ gesture.time > 0 /\ gesture.pos = <<3, 4>>
    /\ startCoords = [x |-> Num(0), y |-> Num(0)]
    /\ Time = [start |-> 0, end |-> 0]

\* C9: a move while armed at less than 10 px from the position of the start
\* returns nothing and changes no state; the end-class event that follows
\* such moves within the thresholds (measured from the start) returns
\* [tap-end, tap].
C9_MoveWithinThreshold ==
    [][ /\ ( /\ call'.cls = "move" /\ gesture.armed
             /\ Closer(gesture.pos, call'.pos, 10) )
           => ( /\ result' = ReturnNull
                /\ UNCHANGED <<startCoords, Time, lastStartTouchEvent, lastEndTouchEvent>> )
        /\ ( /\ call'.cls = "end" /\ call'.path # "ignored"
             /\ gesture.armed /\ gesture.moves > 0
             /\ call'.t - gesture.time <= 2000
             /\ Closer(gesture.pos, call'.pos, 10) )
           => result' = TapEndThenTap ]_vars

\* start, a move to another position within the threshold, end at a position
\* within the threshold of the start
C9_Witness ==
    /\ AcceptedEnd /\ call.was = "armed"
    /\ gesture.moves > 0 /\ gesture.ends = 1
    /\ gesture.pos = <<13, 4>> /\ call.pos = <<10, 0>>
    /\ result = TapEndThenTap

\* C10: a move when no gesture is armed returns nothing and changes no state.
C10_MoveWhenIdle ==
    [][ ( call'.cls = "move" /\ ~gesture.armed )
        => ( /\ result' = ReturnNull
             /\ UNCHANGED <<startCoords, Time, lastStartTouchEvent, lastEndTouchEvent>> ) ]_vars

\* a move far from (0,0) after a move cancelled the gesture
C10_Witness ==
    /\ call.cls = "move" /\ call.was = "cancelled"
    /\ ~Closer(<<0, 0>>, call.pos, 10)
    /\ result = ReturnNull
    /\ startCoords = [x |-> Num(0), y |-> Num(0)]

\* a tap-start was emitted for the gesture and no tap-end since
Open == gesture.started /\ gesture.ends = 0 /\ ~gesture.aborted

\* C11: startCoords is non-null exactly when a gesture is armed: a start-class
\* event was accepted and no end-class event was accepted and no move
\* cancelled the gesture since.
C11_OriginNonNullIffArmed ==
    (startCoords.x # Null /\ startCoords.y # Null) <=> Open

\* C12: while armed, a move at exactly 10 px from the origin returns tap-end
\* and an accepted end-class event at exactly 10 px returns [tap-end]; below
\* 10 px the move returns nothing and the end-class event, within the time
\* window, returns [tap-end, tap].
C12_ThresholdBoundary ==
    [][ /\ ( /\ call'.cls = "move" /\ gesture.armed
             /\ SqDist(gesture.pos, call'.pos) = 100 )
           => result' = ReturnEvent("touchTapEnd")
        /\ ( /\ call'.cls = "end" /\ call'.path # "ignored" /\ gesture.armed
             /\ SqDist(gesture.pos, call'.pos) = 100 )
           => result' = TapEndOnly
        /\ ( /\ call'.cls = "move" /\ gesture.armed
             /\ SqDist(gesture.pos, call'.pos) < 100 )
           => result' = ReturnNull
        /\ ( /\ call'.cls = "end" /\ call'.path # "ignored" /\ gesture.armed
             /\ SqDist(gesture.pos, call'.pos) < 100
             /\ call'.t - gesture.time <= 2000 )
           => result' = TapEndThenTap ]_vars

\* C13: after the module is loaded, each of the three event types declares
\* the touch list when the host has touch capability and the mouse list
\* otherwise, for every combination of the host flags.
C13_Dependencies ==
    measured.loaded =>
      \A e \in {"touchTap", "touchTapStart", "touchTapEnd"} :
        LET d == Val(measured.eventTypes)[e].dependencies
        IN  /\ d # Null
            /\ Val(d) = IF probe.host.ontouchstart
                        THEN << "topTouchCancel", "topTouchEnd", "topTouchStart", "topTouchMove" >>
                        ELSE << "topMouseDown", "topMouseMove", "topMouseUp" >>

\* C14: an accepted end-class event that arrives when no gesture is armed
\* never returns a tap.
C14_NoTapWhenIdle ==
    (AcceptedEnd /\ call.was # "armed") => result = TapEndOnly

\* C15: the armed test of the code (both stored coordinates truthy) agrees
\* with the armed flag of the two-state machine in every state, and every
\* call returns what that machine emits.
C15_Refinement ==
    [][ /\ HasStartCoords(startCoords') <=> gesture'.armed
        /\ call'.path = "start" => result' = ReturnEvent("touchTapStart")
        /\ call'.cls = "move" =>
             ( result' = IF gesture.armed /\ ~Closer(gesture.pos, call'.pos, 10)
                         THEN ReturnEvent("touchTapEnd") ELSE ReturnNull )
        /\ (call'.cls = "end" /\ call'.path # "ignored" /\ gesture.armed) =>
             ( result' = IF /\ call'.t - gesture.time <= 2000
                            /\ Closer(gesture.pos, call'.pos, 10)
                         THEN TapEndThenTap ELSE TapEndOnly ) ]_vars

\* C16: in a well-formed stream a gesture whose tap-start was emitted has its
\* tap-end emitted no later than its end-class event, and is not open when
\* the next tap-start is emitted.
C16_TapEndBetweenTapStarts ==
    [][ /\ call'.cls = "end" => ~Open'
        /\ call'.path = "start" => ~Open ]_vars

\* C17: in a well-formed stream at most one tap-end is emitted after a
\* tap-start and before the next: by the move that cancels the gesture or by
\* an accepted end-class event, not both.
C17_OneTapEndPerGesture ==
    gesture.started => (IF gesture.aborted THEN 1 ELSE 0) + gesture.ends <= 1

\* C18: once a start-class event and its end-class event have been accepted,
\* a start-class or end-class event less than 350 ms after that accepted end
\* returns nothing and leaves the recognizer unarmed, whatever the duration
\* of the gesture.
C18_DuplicatesAfterEnd ==
    [][ ( /\ call'.cls \in {"start", "end"}
          /\ gesture.started /\ gesture.ends = 1
          /\ accepted.end # Null
          /\ call'.t - Val(accepted.end) < 350 )
        => ( /\ result' = ReturnNull
             /\ ~HasStartCoords(startCoords') ) ]_vars

\* the page coordinate of the probed event along the x and the y axis
ProbePageX ==
    IF Len(probe.event.touches) = 1 THEN probe.event.touches[1].pageX
    ELSE IF probe.event.hasPage THEN probe.event.pageX
    ELSE probe.event.clientX + probe.metrics.currentPageScrollLeft
ProbePageY ==
    IF Len(probe.event.touches) = 1 THEN probe.event.touches[1].pageY
    ELSE IF probe.event.hasPage THEN probe.event.pageY
    ELSE probe.event.clientY + probe.metrics.currentPageScrollTop

\* C19: getAxisCoordOfEvent returns, for both axes, the page coordinate of
\* the single touch point if the event carries exactly one, else the page
\* coordinate of the event if present, else its client coordinate plus the
\* scroll offset; getDistance is the Euclidean distance (here its integer
\* part) between the origin and that point.
C19_CoordinateExtraction ==
    measured.extracted =>
      LET n == SqDist(<<Val(probe.coords.x), Val(probe.coords.y)>>,
                      <<ProbePageX, ProbePageY>>)
          d == measured.distance
      IN  /\ measured.pageX = ProbePageX
          /\ measured.pageY = ProbePageY
          /\ d >= 0 /\ d * d <= n /\ n < (d + 1) * (d + 1)

\* an event with no touch point and no page coordinates, scrolled by (2,5):
\* client (20,23) is page (22,28), at distance 25.6 from (13,4)
C19_Witness ==
    /\ measured.extracted
    /\ Len(probe.event.touches) = 0 /\ ~probe.event.hasPage
    /\ probe.event.clientX = 20 /\ probe.event.clientY = 23
    /\ probe.metrics.currentPageScrollLeft = 2 /\ probe.metrics.currentPageScrollTop = 5
    /\ probe.coords = [x |-> Num(13), y |-> Num(4)]
    /\ measured.pageX = 22 /\ measured.pageY = 28 /\ measured.distance = 25

===========================================================================
